---- MODULE Spec2Model ----
(***************************************************************************)
(* Model of xvzf/flask-chmod: the chmod-form PermissionManager             *)
(* (src/flask_chmod/permission_manager.py), the owner/group-form           *)
(* PermissionManager (src/flask_chown/permission_manager.py) and the       *)
(* redis-backed CachedPermissionManager                                    *)
(* (src/flask_chown/permission_manager_redis.py).                          *)
(*                                                                         *)
(* Python values are modelled as strings: NONE is Python's None, "" the    *)
(* empty string, "None" the text str(None) produces.                       *)
(***************************************************************************)
EXTENDS Integers, Sequences, FiniteSets, TLC

VARIABLES
    guard,                  \* closure built by pm.chmod(...) / pm.chown(...): NoGuard or its captured arguments
    get_groups_for_user,    \* self._get_groups_for_user: UNSET (attribute missing) or a registered callback
    ctx_user,               \* stack.top.user of the request being served
    g_current_user,         \* flask.g.current_user of the request being served
    login_user,             \* flask_login.current_user: NOLOGIN (no usable .username) or its username
    pending,                \* a direct method call about to be made on the manager, or NoCall
    last,                   \* the most recent call on the manager and what it produced
    store,                  \* the redis keyspace: per key its value and its TTL as redis reports it
    timeout,                \* CachedPermissionManager._timeout: unset, or the seconds to cache
    procs,                  \* per caller of CachedPermissionManager.user_in_group: where it is and its locals
    written                 \* per key, the boolean most recently handed to redis.set for it

request_vars == <<ctx_user, g_current_user, login_user>>
cache_vars == <<store, timeout, procs, written>>
vars == <<guard, get_groups_for_user, ctx_user, g_current_user, login_user, pending, last,
          store, timeout, procs, written>>

----------------------------------------------------------------------------
(* Python values *)

NONE == "<None>"
UNSET == "<unset>"
NOLOGIN == "<no flask_login user>"
NoGuard == [form |-> "none"]
NoCall == [method |-> "none"]

\* bool(x) for None and str
Truthy(x) == x # NONE /\ x # ""

\* a or b
PyOr(a, b) == IF Truthy(a) THEN a ELSE b

\* str(x) for None and str
Str(x) == IF x = NONE THEN "None" ELSE x

----------------------------------------------------------------------------
(* Input domains *)

MaxChmod == 999

Users == {"bob", "carol"}
Groups == {"eng", "sales"}
IdentityValues == {NONE, ""} \cup Users
GroupValues == {NONE, ""} \cup Groups
ActionValues == {NONE, "action"}
LoginValues == {NOLOGIN, NONE, "", "bob"}
ValidChmods == {1, 10, 11, 100, 101, 110, 111}
GuardChmods == ValidChmods \cup {0, 2, 20, 200}
ArgValues == {<<>>, <<"id7">>}

\* every value user_in_group may be handed as its user
LookupUsers == IdentityValues \cup {"None"}

\* the callbacks a host registers with @pm.groups_for_user: each maps a user
\* to the list of its groups (raises = FALSE) or raises
Returns(groups) == [raises |-> FALSE, groups |-> groups]
Raises == [raises |-> TRUE, groups |-> <<>>]

Callbacks ==
    [ cb_eng   |-> [u \in LookupUsers |->
                      IF u = "carol" THEN Returns(<<"eng">>)
                      ELSE IF u = "bob" THEN Returns(<<"sales", "eng">>)
                      ELSE Returns(<<>>)],
      cb_sales |-> [u \in LookupUsers |->
                      IF u = "carol" THEN Returns(<<"sales">>)
                      ELSE IF u = "bob" THEN Returns(<<"eng", "sales">>)
                      ELSE IF u \in {NONE, "None"} THEN Returns(<<"eng">>)
                      ELSE Returns(<<>>)],
      cb_fail  |-> [u \in LookupUsers |->
                      IF u = "carol" THEN Raises ELSE Returns(<<"eng">>)] ]

CallbackNames == DOMAIN Callbacks

\* the wrapped view: its result is determined by the arguments it was called with
View(args) == <<"OK">> \o args

AbortCode == 401

----------------------------------------------------------------------------
(* Decision engine shared by both forms *)

\* (a membership test that looks at the first element only)
InList_first_only(x, list) == Len(list) > 0 /\ list[1] = x

\* x in list
InList(x, list) == \E i \in 1..Len(list) : list[i] = x

\* (a user_in_group that answers False when the callback raises)
user_in_group_swallowing(cb, user, group) ==
    IF cb = UNSET
    THEN [kind |-> "return", exc |-> NONE, value |-> InList(group, <<>>),
          calls |-> <<>>]
    ELSE LET got == Callbacks[cb][user] IN
         IF got.raises
         THEN [kind |-> "return", exc |-> NONE, value |-> FALSE, calls |-> <<user>>]
         ELSE [kind |-> "return", exc |-> NONE, value |-> InList(group, got.groups),
               calls |-> <<user>>]

\* PermissionManager.user_in_group: the registered callback, or `lambda user: []`
\* when none was registered.  calls = the users the registered callback was
\* invoked with.
user_in_group(cb, user, group) ==
    IF cb = UNSET
    THEN [kind |-> "return", exc |-> NONE, value |-> InList(group, <<>>),
          calls |-> <<>>]
    ELSE LET got == Callbacks[cb][user] IN
         IF got.raises
         THEN [kind |-> "raise", exc |-> "ResolverFailure", value |-> FALSE,
               calls |-> <<user>>]
         ELSE [kind |-> "return", exc |-> NONE, value |-> InList(group, got.groups),
               calls |-> <<user>>]

\* (a registration that keeps the callback registered first)
GroupsForUser_first_wins(cb) ==
    /\ get_groups_for_user' = IF get_groups_for_user = UNSET THEN cb
                              ELSE get_groups_for_user
    /\ last' = [op |-> "groups_for_user", cb |-> cb]
    /\ UNCHANGED <<guard, request_vars, pending, cache_vars>>

\* @pm.groups_for_user
GroupsForUser(cb) ==
    /\ get_groups_for_user' = cb
    /\ last' = [op |-> "groups_for_user", cb |-> cb]
    /\ UNCHANGED <<guard, request_vars, pending, cache_vars>>

----------------------------------------------------------------------------
(* flask_chmod.PermissionManager *)

\* current_user property: ctx.user or g.current_user
chmod_current_user(cu, gu) == PyOr(cu, gu)

\* (a validation whose list of codes lacks 11)
check_chmod_without_11(chmod, msg) ==
    IF chmod \notin {1, 10, 100, 101, 110, 111}
    THEN [kind |-> "raise", exc |-> "PermissionManagerException", msg |-> msg]
    ELSE [kind |-> "return", exc |-> NONE, msg |-> NONE]

\* _check_chmod(chmod, msg)
check_chmod(chmod, msg) ==
    IF chmod \notin {1, 10, 11, 100, 101, 110, 111}
    THEN IF ~Truthy(msg)
         THEN [kind |-> "raise", exc |-> "PermissionManagerException",
               msg |-> "Invalid chmod, valid values are 1[01]{1,2}"]
         ELSE [kind |-> "raise", exc |-> "PermissionManagerException", msg |-> msg]
    ELSE [kind |-> "return", exc |-> NONE, msg |-> NONE]

\* what check_granted produces: kind/exc/value as the caller sees them; via =
\* the check that granted, cu_reads = evaluations of self.current_user, calls =
\* invocations of the registered callback
Granted(via, reads, calls) ==
    [kind |-> "return", exc |-> NONE, value |-> TRUE, via |-> via,
     cu_reads |-> reads, calls |-> calls]
Denied(reads, calls) ==
    [kind |-> "return", exc |-> NONE, value |-> FALSE, via |-> "none",
     cu_reads |-> reads, calls |-> calls]
Raised(exc, reads, calls) ==
    [kind |-> "raise", exc |-> exc, value |-> FALSE, via |-> "none",
     cu_reads |-> reads, calls |-> calls]

\* 'Parse' the chmod
user_allowed(chmod) == (chmod \div 100) > 0
group_allowed(chmod) == ((chmod \div 10) % 10) > 0
other_allowed_units_above_one(chmod) == (chmod % 10) > 1
other_allowed(chmod) == (chmod % 10) > 0

\* (a check_granted that makes the group check before the other two)
chmod_check_granted_group_first(chmod, user, group, cu, gu, cb) ==
    LET chk == check_chmod(chmod, NONE) IN
    IF chk.kind = "raise" THEN Raised(chk.exc, 0, <<>>)
    ELSE
      LET current == chmod_current_user(cu, gu)
          uig     == IF group_allowed(chmod) THEN user_in_group(cb, current, group)
                     ELSE [kind |-> "return", exc |-> NONE, value |-> FALSE,
                           calls |-> <<>>]
          r1      == IF group_allowed(chmod) THEN 1 ELSE 0
      IN
      IF uig.kind = "raise" THEN Raised(uig.exc, r1, uig.calls)
      ELSE IF uig.value THEN Granted("group", r1, uig.calls)
      ELSE IF other_allowed(chmod) THEN Granted("other", r1, uig.calls)
      ELSE IF user_allowed(chmod) /\ user = current THEN Granted("user", r1 + 1, uig.calls)
      ELSE Denied(r1 + (IF user_allowed(chmod) THEN 1 ELSE 0), uig.calls)

\* check_granted(chmod, user, group) with the request context (cu, gu) and the
\* registered callback cb
chmod_check_granted(chmod, user, group, cu, gu, cb) ==
    LET chk == check_chmod(chmod, NONE) IN
    IF chk.kind = "raise" THEN Raised(chk.exc, 0, <<>>)
    ELSE
      LET current == chmod_current_user(cu, gu)
          r1      == IF user_allowed(chmod) THEN 1 ELSE 0
      IN
      IF other_allowed(chmod) THEN Granted("other", 0, <<>>)
      ELSE IF user_allowed(chmod) /\ user = current THEN Granted("user", 1, <<>>)
      ELSE IF group_allowed(chmod)
           THEN LET uig == user_in_group(cb, current, group) IN
                IF uig.kind = "raise" THEN Raised(uig.exc, r1 + 1, uig.calls)
                ELSE IF uig.value THEN Granted("group", r1 + 1, uig.calls)
                ELSE Denied(r1 + 1, uig.calls)
      ELSE Denied(r1, <<>>)

\* (a registration that lacks the "Missing user" check)
chmod_register_no_user_check(chmod, user, group, action) ==
    IF ~Truthy(group) /\ chmod \in {110, 10, 111, 11}
    THEN [kind |-> "raise", exc |-> "PermissionManagerException", msg |-> "Missing group"]
    ELSE [kind |-> "return", exc |-> NONE, msg |-> NONE]

\* chmod(chmod, user, group, action): the checks made when the decorator is built
chmod_register(chmod, user, group, action) ==
    IF ~Truthy(user) /\ chmod \in {100, 101, 110, 111}
    THEN [kind |-> "raise", exc |-> "PermissionManagerException", msg |-> "Missing user"]
    ELSE IF ~Truthy(group) /\ chmod \in {110, 10, 111, 11}
    THEN [kind |-> "raise", exc |-> "PermissionManagerException", msg |-> "Missing group"]
    ELSE [kind |-> "return", exc |-> NONE, msg |-> NONE]

\* (a wrapper that calls the view before it looks at the decision)
wrapper_view_first(cg, action, args) ==
    IF cg.kind = "raise"
    THEN [kind |-> "raise", exc |-> cg.exc, value |-> NONE,
          view_calls |-> <<>>, action_calls |-> 0]
    ELSE IF cg.value
    THEN [kind |-> "view", exc |-> NONE, value |-> View(args),
          view_calls |-> <<args>>, action_calls |-> 0]
    ELSE IF Truthy(action)
    THEN [kind |-> "action", exc |-> NONE, value |-> "action()",
          view_calls |-> <<args>>, action_calls |-> 1]
    ELSE [kind |-> "abort", exc |-> NONE, value |-> AbortCode,
          view_calls |-> <<args>>, action_calls |-> 0]

\* the wrapper's own branches, given what check_granted produced
wrapper(cg, action, args) ==
    IF cg.kind = "raise"
    THEN [kind |-> "raise", exc |-> cg.exc, value |-> NONE,
          view_calls |-> <<>>, action_calls |-> 0]
    ELSE IF cg.value
    THEN [kind |-> "view", exc |-> NONE, value |-> View(args),
          view_calls |-> <<args>>, action_calls |-> 0]
    ELSE IF Truthy(action)
    THEN [kind |-> "action", exc |-> NONE, value |-> "action()",
          view_calls |-> <<>>, action_calls |-> 1]
    ELSE [kind |-> "abort", exc |-> NONE, value |-> AbortCode,
          view_calls |-> <<>>, action_calls |-> 0]

----------------------------------------------------------------------------
(* flask_chown.PermissionManager *)

\* current_user property: str(ctx.user or g.current_user or current_user.username);
\* reading .username raises AttributeError when flask_login offers no user with one
chown_current_user(cu, gu, lu) ==
    IF Truthy(PyOr(cu, gu))
    THEN [kind |-> "return", exc |-> NONE, value |-> Str(PyOr(cu, gu))]
    ELSE IF lu = NOLOGIN
    THEN [kind |-> "raise", exc |-> "AttributeError", value |-> NONE]
    ELSE [kind |-> "return", exc |-> NONE, value |-> Str(lu)]

\* (a check_granted whose owner comparison is not guarded by `owner and`)
chown_check_granted_unguarded(owner, group, cu, gu, lu, cb) ==
    LET current == chown_current_user(cu, gu, lu) IN
    IF current.kind = "raise" THEN Raised(current.exc, 1, <<>>)
    ELSE IF current.value = owner THEN Granted("user", 1, <<>>)
    ELSE IF Truthy(group)
         THEN LET uig == user_in_group(cb, current.value, group) IN
              IF uig.kind = "raise" THEN Raised(uig.exc, 2, uig.calls)
              ELSE IF uig.value THEN Granted("group", 2, uig.calls)
              ELSE Denied(2, uig.calls)
    ELSE Denied(1, <<>>)

\* check_granted(owner, group) with the request context (cu, gu, lu) and the
\* registered callback cb
chown_check_granted(owner, group, cu, gu, lu, cb) ==
    LET current == chown_current_user(cu, gu, lu)
        r1      == IF Truthy(owner) THEN 1 ELSE 0
    IN
    IF Truthy(owner) /\ current.kind = "raise" THEN Raised(current.exc, 1, <<>>)
    ELSE IF Truthy(owner) /\ current.value = owner THEN Granted("user", 1, <<>>)
    ELSE IF Truthy(group)
         THEN IF current.kind = "raise" THEN Raised(current.exc, r1 + 1, <<>>)
              ELSE LET uig == user_in_group(cb, current.value, group) IN
                   IF uig.kind = "raise" THEN Raised(uig.exc, r1 + 1, uig.calls)
                   ELSE IF uig.value THEN Granted("group", r1 + 1, uig.calls)
                   ELSE Denied(r1 + 1, uig.calls)
    ELSE Denied(r1, <<>>)

\* (a registration that demands both owner and group)
chown_register_needs_both(owner, group, action) ==
    IF ~Truthy(owner) \/ ~Truthy(group)
    THEN [kind |-> "raise", exc |-> "PermissionManagerException",
          msg |-> "You have to provide at leastone out of owner and group"]
    ELSE [kind |-> "return", exc |-> NONE, msg |-> NONE]

\* chown(owner, group, action): the check made when the decorator is built
chown_register(owner, group, action) ==
    IF ~Truthy(owner) /\ ~Truthy(group)
    THEN [kind |-> "raise", exc |-> "PermissionManagerException",
          msg |-> "You have to provide at leastone out of owner and group"]
    ELSE [kind |-> "return", exc |-> NONE, msg |-> NONE]

\* (a wrapper that answers an exception of check_granted with abort(401))
chown_wrapper_catch_all(cg, action, args) ==
    IF cg.kind = "raise"
    THEN [kind |-> "abort", exc |-> NONE, value |-> AbortCode,
          view_calls |-> <<>>, action_calls |-> 0]
    ELSE IF cg.value
    THEN [kind |-> "view", exc |-> NONE, value |-> View(args),
          view_calls |-> <<args>>, action_calls |-> 0]
    ELSE IF Truthy(action)
    THEN [kind |-> "action", exc |-> NONE, value |-> "action()",
          view_calls |-> <<>>, action_calls |-> 1]
    ELSE [kind |-> "abort", exc |-> NONE, value |-> AbortCode,
          view_calls |-> <<>>, action_calls |-> 0]

\* the wrapper built by chown, given what check_granted produced
chown_wrapper(cg, action, args) ==
    IF cg.kind = "raise"
    THEN [kind |-> "raise", exc |-> cg.exc, value |-> NONE,
          view_calls |-> <<>>, action_calls |-> 0]
    ELSE IF cg.value
    THEN [kind |-> "view", exc |-> NONE, value |-> View(args),
          view_calls |-> <<args>>, action_calls |-> 0]
    ELSE IF Truthy(action)
    THEN [kind |-> "action", exc |-> NONE, value |-> "action()",
          view_calls |-> <<>>, action_calls |-> 1]
    ELSE [kind |-> "abort", exc |-> NONE, value |-> AbortCode,
          view_calls |-> <<>>, action_calls |-> 0]

----------------------------------------------------------------------------
(* flask_chown.CachedPermissionManager and the redis store behind it *)

MaxTTL == 2

CacheUsers == {"bob", "carol"}
CacheGroups == {"eng"}
CacheProcs == {"p1", "p2"}
TimeoutArgs == (-1)..MaxTTL

\* _gen_json_pair(user, group): the prefix followed by the JSON text of
\* {"user": user, "group": group}
gen_json_pair(user, group) ==
    <<"flask_chown:CachedPermissionManager:granted", "user", user, "group", group>>

Keys == {gen_json_pair(u, g) : u \in CacheUsers, g \in CacheGroups}

\* redis: a key that is missing reports TTL -2, a key without expiry TTL -1
Missing == [value |-> NONE, ttl |-> -2]

\* GET key
redis_get(st, key) == st[key].value

\* SET key value: the value replaces the old one and any expiry is dropped
redis_set(st, key, value) == [st EXCEPT ![key] = [value |-> value, ttl |-> -1]]

\* EXPIRE key seconds: no effect on a missing key
redis_expire(st, key, seconds) ==
    IF st[key] = Missing THEN st ELSE [st EXCEPT ![key].ttl = seconds]

\* one second passes: expiries count down, a key whose time is up is removed
redis_tick(st) ==
    [k \in DOMAIN st |->
        IF st[k].ttl > 1 THEN [st[k] EXCEPT !.ttl = @ - 1]
        ELSE IF st[k].ttl = 1 THEN Missing
        ELSE st[k]]

\* the bytes redis keeps for the Python bool handed to redis.set
\* (a store that keeps b"True" whatever was set)
Enc_always_true(result) == "True"

Enc(result) == IF result THEN "True" ELSE "False"

\* (a first read that takes every answer, None too, for a hit)
cached_truthy_always(bytes) == TRUE

\* `if _cached:` on what redis.get returned (None or bytes)
cached_truthy(bytes) == bytes # NONE /\ bytes # ""

\* (a hit that answers with the truth value of the bytes read)
cached_value_truthy(bytes) == bytes # NONE /\ bytes # ""

\* b"True" == self.redis.get(...)
cached_value(bytes) == bytes = "True"

\* (a _cache that never asks for an expiry)
cache_expiry_never(t) == -1

\* the expiry _cache asks for: `if self.timeout > 0: expire(key, self.timeout)`,
\* -1 standing for no expire call
cache_expiry(t) == IF t > 0 THEN t ELSE -1

\* _timeout before the setter ever stored a value
NoTimeout == [set |-> FALSE, value |-> 0, invalid |-> FALSE]

\* timeout.setter: a negative value is logged (invalid) and leaves _timeout as it
\* was; invalid = the most recent assignment was logged as not valid
timeout_setter(cur, t) ==
    IF t >= 0 THEN [set |-> TRUE, value |-> t, invalid |-> FALSE]
    ELSE [cur EXCEPT !.invalid = TRUE]

NoWrite == [set |-> FALSE, value |-> FALSE]

\* a caller's locals; prior = what had been stored for its key when it entered,
\* at = the step an exception was raised in
IdleProc ==
    [pc |-> "idle", user |-> NONE, group |-> NONE, seen1 |-> NONE, seen2 |-> NONE,
     path |-> "none", result |-> FALSE, checks |-> 0, calls |-> 0, ret |-> FALSE,
     exc |-> NONE, at |-> "none", cb |-> UNSET, timeout |-> 0, age |-> 0,
     prior |-> NoWrite]

KeyOf(p) == gen_json_pair(procs[p].user, procs[p].group)

Fail(p, exc) ==
    [procs EXCEPT ![p].pc = "failed", ![p].exc = exc, ![p].at = procs[p].pc]

\* check_granted(None, group) of a CachedPermissionManager whose group check is
\* the finished call pr: `if group and self.user_in_group(...)`
cached_check_granted(pr) ==
    IF pr.pc = "failed" THEN Raised(pr.exc, 1, <<>>)
    ELSE IF pr.ret THEN Granted("group", 1, <<>>)
    ELSE Denied(1, <<>>)

\* what a view guarded with pm.chown(group=...) answers to the request that made
\* the finished call pr
cached_guard_response(pr) == chown_wrapper(cached_check_granted(pr), NONE, <<>>)

\* the cache is not in use (plain PermissionManager)
NoCache ==
    /\ store = [k \in Keys |-> Missing]
    /\ timeout = NoTimeout
    /\ procs = [p \in CacheProcs |-> IdleProc]
    /\ written = [k \in Keys |-> NoWrite]

\* CachedPermissionManager(timeout=t) on an empty store
InitCache ==
    /\ guard = NoGuard
    /\ get_groups_for_user = UNSET
    /\ ctx_user = NONE
    /\ g_current_user = NONE
    /\ login_user = NOLOGIN
    /\ pending = NoCall
    /\ last = [op |-> "__init__"]
    /\ store = [k \in Keys |-> Missing]
    /\ \E t \in TimeoutArgs : timeout = timeout_setter(NoTimeout, t)
    /\ procs = [p \in CacheProcs |-> IdleProc]
    /\ written = [k \in Keys |-> NoWrite]

\* pm.timeout = t
TimeoutSet(t) ==
    /\ timeout' = timeout_setter(timeout, t)
    /\ UNCHANGED <<guard, get_groups_for_user, request_vars, pending, last, store,
                   procs, written>>

\* a caller enters user_in_group(user, group)
Call(p, user, group) ==
    /\ procs[p].pc = "idle"
    /\ procs' = [procs EXCEPT ![p] = [IdleProc EXCEPT !.pc = "get1", !.user = user,
                                                     !.group = group,
                                                     !.prior = written[gen_json_pair(user, group)]]]
    /\ UNCHANGED <<guard, get_groups_for_user, request_vars, pending, last, store,
                   timeout, written>>

\* _cached = self.redis.get(key); if _cached: ... else: ...
Get1(p, fails) ==
    /\ procs[p].pc = "get1"
    /\ procs' = IF fails THEN Fail(p, "StoreFailure")
                ELSE LET got == redis_get(store, KeyOf(p)) IN
                     [procs EXCEPT ![p].seen1 = got,
                                   ![p].pc = IF cached_truthy(got) THEN "get2"
                                             ELSE "resolve"]
    /\ UNCHANGED <<guard, get_groups_for_user, request_vars, pending, last, store,
                   timeout, written>>

\* return b"True" == self.redis.get(key)
Get2(p, fails) ==
    /\ procs[p].pc = "get2"
    /\ procs' = IF fails THEN Fail(p, "StoreFailure")
                ELSE LET got == redis_get(store, KeyOf(p)) IN
                     [procs EXCEPT ![p].seen2 = got, ![p].path = "hit",
                                   ![p].ret = cached_value(got), ![p].pc = "done"]
    /\ UNCHANGED <<guard, get_groups_for_user, request_vars, pending, last, store,
                   timeout, written>>

\* _cache: result = super().user_in_group(user, group)
Resolve(p) ==
    /\ procs[p].pc = "resolve"
    /\ LET uig == user_in_group(get_groups_for_user, procs[p].user, procs[p].group) IN
       procs' = IF uig.kind = "raise"
                THEN [Fail(p, uig.exc) EXCEPT ![p].checks = @ + 1,
                                              ![p].calls = @ + Len(uig.calls),
                                              ![p].cb = get_groups_for_user]
                ELSE [procs EXCEPT ![p].result = uig.value, ![p].checks = @ + 1,
                                   ![p].calls = @ + Len(uig.calls),
                                   ![p].cb = get_groups_for_user, ![p].pc = "set"]
    /\ UNCHANGED <<guard, get_groups_for_user, request_vars, pending, last, store,
                   timeout, written>>

\* _cache: self.redis.set(key, result)
Set(p, fails) ==
    /\ procs[p].pc = "set"
    /\ IF fails
       THEN /\ procs' = Fail(p, "StoreFailure")
            /\ UNCHANGED <<store, written>>
       ELSE /\ store' = redis_set(store, KeyOf(p), Enc(procs[p].result))
            /\ written' = [written EXCEPT ![KeyOf(p)] =
                              [set |-> TRUE, value |-> procs[p].result]]
            /\ procs' = [procs EXCEPT ![p].pc = "expire"]
    /\ UNCHANGED <<guard, get_groups_for_user, request_vars, pending, last, timeout>>

\* _cache: if self.timeout > 0: self.redis.expire(key, self.timeout); return result
\* (reading self.timeout raises AttributeError while _timeout was never set)
Expire(p, fails) ==
    /\ procs[p].pc = "expire"
    /\ IF ~timeout.set
       THEN /\ procs' = Fail(p, "AttributeError")
            /\ UNCHANGED store
       ELSE IF cache_expiry(timeout.value) = -1
       THEN /\ procs' = [procs EXCEPT ![p].path = "miss", ![p].ret = procs[p].result,
                                      ![p].timeout = timeout.value, ![p].pc = "done"]
            /\ UNCHANGED store
       ELSE IF fails
       THEN /\ procs' = Fail(p, "StoreFailure")
            /\ UNCHANGED store
       ELSE /\ store' = redis_expire(store, KeyOf(p), cache_expiry(timeout.value))
            /\ procs' = [procs EXCEPT ![p].path = "miss", ![p].ret = procs[p].result,
                                      ![p].timeout = timeout.value,
                                      ![p].pc = "done"]
    /\ UNCHANGED <<guard, get_groups_for_user, request_vars, pending, last, timeout,
                   written>>

\* the caller takes the result (or the exception) and is free to call again
Finish(p) ==
    /\ procs[p].pc \in {"done", "failed"}
    /\ procs' = [procs EXCEPT ![p] = IdleProc]
    /\ UNCHANGED <<guard, get_groups_for_user, request_vars, pending, last, store,
                   timeout, written>>

\* a second passes in redis; age counts the seconds since a call returned (no
\* further than MaxTTL + 1, past which no entry the call wrote is left);
\* timeout (in a caller's locals) is the self.timeout that _cache read
Tick ==
    /\ \E k \in Keys : store[k].ttl > 0
    /\ store' = redis_tick(store)
    /\ procs' = [p \in CacheProcs |->
                    IF procs[p].pc = "done" /\ procs[p].age <= MaxTTL
                    THEN [procs[p] EXCEPT !.age = @ + 1]
                    ELSE procs[p]]
    /\ UNCHANGED <<guard, get_groups_for_user, request_vars, pending, last, timeout,
                   written>>

\* the cached manager with the callers P
NextCache(P) ==
    \/ \E cb \in CallbackNames : GroupsForUser(cb)
    \/ \E t \in TimeoutArgs : TimeoutSet(t)
    \/ \E p \in P, u \in CacheUsers, g \in CacheGroups : Call(p, u, g)
    \/ \E p \in P, fails \in BOOLEAN : Get1(p, fails)
    \/ \E p \in P, fails \in BOOLEAN : Get2(p, fails)
    \/ \E p \in P : Resolve(p)
    \/ \E p \in P, fails \in BOOLEAN : Set(p, fails)
    \/ \E p \in P, fails \in BOOLEAN : Expire(p, fails)
    \/ \E p \in P : Finish(p)
    \/ Tick

\* one caller at a time
NextCacheSeq == NextCache({"p1"})

SpecCacheSeq == InitCache /\ [][NextCacheSeq]_vars

\* concurrent callers of a manager whose callback and timeout were settled
\* before the first request
InitCacheRace ==
    /\ guard = NoGuard
    /\ get_groups_for_user \in {UNSET} \cup CallbackNames
    /\ ctx_user = NONE
    /\ g_current_user = NONE
    /\ login_user = NOLOGIN
    /\ pending = NoCall
    /\ last = [op |-> "__init__"]
    /\ store = [k \in Keys |-> Missing]
    /\ \E t \in TimeoutArgs : timeout = timeout_setter(NoTimeout, t)
    /\ procs = [p \in CacheProcs |-> IdleProc]
    /\ written = [k \in Keys |-> NoWrite]

NextCacheRace ==
    \/ \E p \in CacheProcs, u \in CacheUsers, g \in CacheGroups : Call(p, u, g)
    \/ \E p \in CacheProcs, fails \in BOOLEAN : Get1(p, fails)
    \/ \E p \in CacheProcs, fails \in BOOLEAN : Get2(p, fails)
    \/ \E p \in CacheProcs : Resolve(p)
    \/ \E p \in CacheProcs, fails \in BOOLEAN : Set(p, fails)
    \/ \E p \in CacheProcs, fails \in BOOLEAN : Expire(p, fails)
    \/ \E p \in CacheProcs : Finish(p)
    \/ Tick

SpecCacheRace == InitCacheRace /\ [][NextCacheRace]_vars

----------------------------------------------------------------------------
(* Guards: registration with pm.chmod / pm.chown and the requests they serve *)

InitCommon ==
    /\ guard = NoGuard
    /\ get_groups_for_user = UNSET
    /\ ctx_user = NONE
    /\ g_current_user = NONE
    /\ login_user = NOLOGIN
    /\ pending = NoCall
    /\ last = [op |-> "__init__"]
    /\ NoCache

\* @pm.chmod(chmod, user=user, group=group, action=action).  Each call builds
\* its own closure and closures share nothing, so the model follows one: the
\* first that is built.
Chmod(chmod, user, group, action) ==
    LET reg == chmod_register(chmod, user, group, action) IN
    /\ guard = NoGuard
    /\ guard' = IF reg.kind = "return"
                THEN [form |-> "chmod", chmod |-> chmod, user |-> user,
                      group |-> group, action |-> action]
                ELSE guard
    /\ last' = [op |-> "register", form |-> "chmod", chmod |-> chmod, user |-> user,
                group |-> group, action |-> action, reg |-> reg]
    /\ UNCHANGED <<get_groups_for_user, request_vars, pending, cache_vars>>

\* @pm.chown(owner=owner, group=group, action=action)
Chown(owner, group, action) ==
    LET reg == chown_register(owner, group, action) IN
    /\ guard = NoGuard
    /\ guard' = IF reg.kind = "return"
                THEN [form |-> "chown", chmod |-> 0, user |-> owner,
                      group |-> group, action |-> action]
                ELSE guard
    /\ last' = [op |-> "register", form |-> "chown", chmod |-> 0, user |-> owner,
                group |-> group, action |-> action, reg |-> reg]
    /\ UNCHANGED <<get_groups_for_user, request_vars, pending, cache_vars>>

\* a request served by a view guarded with pm.chmod: setuser / setuser_stack
\* establish the request context, then the wrapper runs
ChmodRequest(cu, gu, args) ==
    /\ guard.form = "chmod"
    /\ LET cg == chmod_check_granted(guard.chmod, guard.user, guard.group,
                                     cu, gu, get_groups_for_user)
       IN last' = [op |-> "wrapper", guard |-> guard,
                   current |-> [kind |-> "return", exc |-> NONE,
                                value |-> chmod_current_user(cu, gu)],
                   cb |-> get_groups_for_user, args |-> args, cg |-> cg,
                   resp |-> wrapper(cg, guard.action, args)]
    /\ ctx_user' = cu
    /\ g_current_user' = gu
    /\ UNCHANGED <<guard, get_groups_for_user, login_user, pending, cache_vars>>

\* a request served by a view guarded with pm.chown
ChownRequest(cu, gu, lu, args) ==
    /\ guard.form = "chown"
    /\ LET cg == chown_check_granted(guard.user, guard.group, cu, gu, lu,
                                     get_groups_for_user)
       IN last' = [op |-> "wrapper", guard |-> guard,
                   current |-> chown_current_user(cu, gu, lu),
                   cb |-> get_groups_for_user, args |-> args, cg |-> cg,
                   resp |-> chown_wrapper(cg, guard.action, args)]
    /\ ctx_user' = cu
    /\ g_current_user' = gu
    /\ login_user' = lu
    /\ UNCHANGED <<guard, get_groups_for_user, pending, cache_vars>>

Next ==
    \/ \E cb \in CallbackNames : GroupsForUser(cb)
    \/ \E c \in GuardChmods, u \in IdentityValues, g \in GroupValues, a \in ActionValues :
          Chmod(c, u, g, a)
    \/ \E o \in IdentityValues, g \in GroupValues, a \in ActionValues :
          Chown(o, g, a)
    \/ \E cu \in IdentityValues, gu \in IdentityValues, args \in ArgValues :
          ChmodRequest(cu, gu, args)
    \/ \E cu \in IdentityValues, gu \in IdentityValues, lu \in LoginValues,
          args \in ArgValues :
          ChownRequest(cu, gu, lu, args)

Spec == InitCommon /\ [][Next]_vars

----------------------------------------------------------------------------
(* Direct calls of the engine's methods: the call and its arguments are drawn *)
(* in the initial state, the action makes the call                            *)

EngineCalls ==
    [method : {"_check_chmod"}, chmod : 0..MaxChmod, msg : {NONE, "bad chmod"}]
    \cup
    [method : {"check_granted"}, chmod : GuardChmods, user : IdentityValues,
     group : GroupValues, cu : IdentityValues, gu : IdentityValues]
    \cup
    [method : {"user_in_group"}, user : LookupUsers, group : GroupValues]

InitEngine ==
    /\ guard = NoGuard
    /\ get_groups_for_user = UNSET
    /\ ctx_user = NONE
    /\ g_current_user = NONE
    /\ login_user = NOLOGIN
    /\ pending \in EngineCalls
    /\ last = [op |-> "__init__"]
    /\ NoCache

CheckChmodCall ==
    /\ pending.method = "_check_chmod"
    /\ last' = [op |-> "_check_chmod", chmod |-> pending.chmod, msg |-> pending.msg,
                out |-> check_chmod(pending.chmod, pending.msg)]
    /\ pending' = NoCall
    /\ UNCHANGED <<guard, get_groups_for_user, request_vars, cache_vars>>

CheckGrantedCall ==
    /\ pending.method = "check_granted"
    /\ last' = [op |-> "check_granted", chmod |-> pending.chmod, user |-> pending.user,
                group |-> pending.group,
                current |-> [kind |-> "return", exc |-> NONE,
                             value |-> chmod_current_user(pending.cu, pending.gu)],
                cb |-> get_groups_for_user,
                cg |-> chmod_check_granted(pending.chmod, pending.user, pending.group,
                                           pending.cu, pending.gu, get_groups_for_user)]
    /\ ctx_user' = pending.cu
    /\ g_current_user' = pending.gu
    /\ pending' = NoCall
    /\ UNCHANGED <<guard, get_groups_for_user, login_user, cache_vars>>

UserInGroupCall ==
    /\ pending.method = "user_in_group"
    /\ last' = [op |-> "user_in_group", user |-> pending.user, group |-> pending.group,
                cb |-> get_groups_for_user,
                out |-> user_in_group(get_groups_for_user, pending.user, pending.group)]
    /\ pending' = NoCall
    /\ UNCHANGED <<guard, get_groups_for_user, request_vars, cache_vars>>

NextEngine ==
    \/ \E cb \in CallbackNames : pending # NoCall /\ GroupsForUser(cb)
    \/ CheckChmodCall
    \/ CheckGrantedCall
    \/ UserInGroupCall

SpecEngine == InitEngine /\ [][NextEngine]_vars

----------------------------------------------------------------------------
(* Properties *)

\* the groups the registered callback cb returns for user, as a set ({} when no
\* callback is registered or the callback raises)
GroupsOf(cb, user) ==
    IF cb = UNSET \/ Callbacks[cb][user].raises THEN {}
    ELSE {Callbacks[cb][user].groups[i] : i \in 1..Len(Callbacks[cb][user].groups)}

IsGrant(cg) == cg.kind = "return" /\ cg.value
IsDeny(cg) == cg.kind = "return" /\ ~cg.value

\* C1: the view is called only when check_granted returned Grant; on Grant it
\* is called once with the request's arguments and its result is the response;
\* on Deny it is not called and the response is action() when an action was
\* supplied, abort(401) otherwise
C1_ViewOnlyOnGrant ==
    last.op = "wrapper" =>
        /\ last.resp.view_calls # <<>> => IsGrant(last.cg)
        /\ IsGrant(last.cg) =>
              /\ last.resp.view_calls = <<last.args>>
              /\ last.resp.kind = "view"
              /\ last.resp.value = View(last.args)
              /\ last.resp.action_calls = 0
        /\ IsDeny(last.cg) =>
              /\ last.resp.view_calls = <<>>
              /\ IF last.guard.action # NONE
                 THEN last.resp.kind = "action" /\ last.resp.action_calls = 1
                 ELSE /\ last.resp.kind = "abort"
                      /\ last.resp.value = 401
                      /\ last.resp.action_calls = 0

C1_Witness ==
    /\ last.op = "wrapper"
    /\ last.guard.form = "chmod"
    /\ IsDeny(last.cg)
    /\ last.guard.action = "action"
    /\ last.resp.kind = "action"

\* an invalid permission spec, as the specification lists them
InvalidSpec(form, chmod, user, group) ==
    IF form = "chmod"
    THEN \/ chmod \notin {1, 10, 11, 100, 101, 110, 111}
         \/ chmod \in {100, 101, 110, 111} /\ user \in {NONE, ""}
         \/ chmod \in {10, 11, 110, 111} /\ group \in {NONE, ""}
    ELSE user \in {NONE, ""} /\ group \in {NONE, ""}

\* C2: every invalid spec is rejected when pm.chmod / pm.chown is called, and
\* no request ever fails with PermissionManagerException
C2_InvalidSpecRejectedAtRegistration ==
    /\ last.op = "register" /\ InvalidSpec(last.form, last.chmod, last.user, last.group)
          => last.reg.kind = "raise"
    /\ last.op = "wrapper" => last.resp.exc # "PermissionManagerException"

\* C4: registration fails when the user-bit is set without a user or the
\* group-bit without a group, and no request with an absent identity is
\* granted by the user-equality check of a chmod guard
C4_MissingUserOrGroupRejected ==
    /\ last.op = "register" /\ last.form = "chmod"
          /\ last.chmod \in {100, 101, 110, 111} /\ last.user \in {NONE, ""}
          => last.reg.kind = "raise" /\ last.reg.exc = "PermissionManagerException"
    /\ last.op = "register" /\ last.form = "chmod"
          /\ last.chmod \in {10, 11, 110, 111} /\ last.group \in {NONE, ""}
          => last.reg.kind = "raise" /\ last.reg.exc = "PermissionManagerException"
    /\ last.op = "wrapper" /\ last.guard.form = "chmod"
          /\ last.current.value \in {NONE, ""}
          => last.cg.via # "user"

C4_Witness ==
    /\ last.op = "wrapper"
    /\ last.guard.form = "chmod"
    /\ last.guard.chmod = 100
    /\ last.current.value = NONE
    /\ IsDeny(last.cg)
    /\ last.resp.kind = "abort"

\* C7: pm.chown raises exactly when owner and group are both empty; a request
\* that check_granted decides is granted exactly when the owner is set and
\* equals the identity or the group is set and contains the identity
C7_ChownRejectsOnlyEmptySpec ==
    /\ last.op = "register" /\ last.form = "chown" =>
          (last.reg.kind = "raise"
              <=> last.user \in {NONE, ""} /\ last.group \in {NONE, ""})
    /\ last.op = "wrapper" /\ last.guard.form = "chown" /\ last.cg.kind = "return" =>
          (last.cg.value <=>
              \/ last.guard.user \notin {NONE, ""}
                    /\ last.current.value = last.guard.user
              \/ last.guard.group \notin {NONE, ""}
                    /\ last.guard.group \in GroupsOf(last.cb, last.current.value))

C7_Witness ==
    /\ last.op = "wrapper"
    /\ last.guard.form = "chown"
    /\ last.guard.user = NONE
    /\ last.guard.group = "eng"
    /\ last.current.value = "bob"
    /\ last.cb = "cb_eng"
    /\ IsGrant(last.cg)

\* a chown request whose identity is absent (nothing set the user, and
\* flask_login has none) against a guard whose owner is absent
AbsentIdentityAbsentOwner ==
    /\ last.op = "wrapper"
    /\ last.guard.form = "chown"
    /\ last.guard.user = NONE
    /\ ctx_user = NONE
    /\ g_current_user = NONE
    /\ login_user \in {NOLOGIN, NONE}

\* C8 as stated: with identity and owner both absent the owner comparison is
\* equal and check_granted returns Grant
C8_AbsentOwnerMatchesAbsentIdentity ==
    AbsentIdentityAbsentOwner => IsGrant(last.cg) /\ last.cg.via = "user"

\* C8 amended: the owner comparison is guarded by the owner being set, so with
\* the owner absent check_granted never grants by owner equality: the request
\* is decided by the group check alone, or the failure to read an identity
\* propagates
C8_AbsentOwnerNeverMatches ==
    last.op = "wrapper" /\ last.guard.form = "chown" /\ last.guard.user \in {NONE, ""} =>
        /\ last.cg.via # "user"
        /\ last.cg.kind = "return" =>
              (last.cg.value <=> last.guard.group \in GroupsOf(last.cb, last.current.value))
        /\ last.current.kind = "raise" => last.cg.kind = "raise"

C8_Witness ==
    /\ AbsentIdentityAbsentOwner
    /\ login_user = NONE
    /\ IsDeny(last.cg)

\* C3: _check_chmod raises exactly for the integers of [0, MaxChmod] outside
\* {1,10,11,100,101,110,111}; each of the seven codes, given the user and group
\* its bits need, registers and evaluates without PermissionManagerException
C3_CheckChmodExactlySeven ==
    /\ last.op = "_check_chmod" =>
          (last.out.kind = "raise" /\ last.out.exc = "PermissionManagerException"
              <=> last.chmod \notin {1, 10, 11, 100, 101, 110, 111})
    /\ \A c \in {1, 10, 11, 100, 101, 110, 111} :
          LET u == IF c \in {100, 101, 110, 111} THEN "bob" ELSE NONE
              g == IF c \in {10, 11, 110, 111} THEN "eng" ELSE NONE
          IN /\ chmod_register(c, u, g, NONE).kind = "return"
             /\ \A cu \in IdentityValues :
                   chmod_check_granted(c, u, g, cu, NONE, get_groups_for_user).exc
                       # "PermissionManagerException"

C3_Witness ==
    /\ last.op = "_check_chmod"
    /\ last.chmod = 112
    /\ last.out.kind = "raise"

\* C5: with the other-bit set check_granted returns Grant whatever the
\* identity, user and group are, and reads neither the identity nor the groups
C5_OtherBitGrantsEveryone ==
    last.op = "check_granted" /\ last.chmod \in {1, 11, 101, 111} =>
        /\ IsGrant(last.cg)
        /\ last.cg.cu_reads = 0
        /\ last.cg.calls = <<>>

C5_Witness ==
    /\ last.op = "check_granted"
    /\ last.chmod = 11
    /\ last.user = NONE
    /\ last.group = NONE
    /\ last.current.value = NONE
    /\ IsGrant(last.cg)

\* C6: with the other-bit clear check_granted returns Grant exactly when the
\* user-bit is set and the identity equals the user, or the group-bit is set
\* and the identity's groups contain the group; it returns Deny otherwise
C6_UserOrGroupDecides ==
    last.op = "check_granted" /\ last.chmod \in {10, 100, 110} =>
        /\ last.cg.kind = "return" =>
              (last.cg.value <=>
                  \/ last.chmod \in {100, 110} /\ last.current.value = last.user
                  \/ last.chmod \in {10, 110}
                        /\ last.group \in GroupsOf(last.cb, last.current.value))
        /\ last.cg.kind = "raise" =>
              /\ last.chmod \in {10, 110}
              /\ last.cb # UNSET
              /\ Callbacks[last.cb][last.current.value].raises

C6_Witness ==
    /\ last.op = "check_granted"
    /\ last.chmod = 110
    /\ last.user = "bob"
    /\ last.group = "eng"
    /\ last.current.value = "carol"
    /\ last.cb = "cb_sales"
    /\ IsDeny(last.cg)

\* C9: a call that finds the entry of (u,g) present returns the boolean the
\* earlier miss stored for (u,g) and calls neither the underlying check nor the
\* registered callback, whatever the callback would answer now
C9_HitReturnsStoredBoolean ==
    \A p \in CacheProcs :
        procs[p].pc = "done" /\ procs[p].path = "hit" /\ procs[p].seen2 # NONE =>
            /\ written[KeyOf(p)].set
            /\ procs[p].ret = written[KeyOf(p)].value
            /\ procs[p].checks = 0
            /\ procs[p].calls = 0

C9_Witness ==
    /\ procs["p1"].pc = "done"
    /\ procs["p1"].path = "hit"
    /\ procs["p1"].user = "carol"
    /\ procs["p1"].seen2 = "True"
    /\ procs["p1"].ret
    /\ get_groups_for_user = "cb_sales"
    /\ "eng" \notin GroupsOf(get_groups_for_user, "carol")

\* C10: a call that finds no entry makes the underlying check once, stores its
\* boolean under the pair's key (True as True, False as False) and returns it;
\* with a timeout > 0 the entry has timeout - age seconds left until it is
\* removed, with timeout = 0 it has no expiry
C10_MissStoresAndReturnsResult ==
    \A p \in CacheProcs :
        procs[p].pc = "done" /\ procs[p].path = "miss" =>
            /\ procs[p].seen1 = NONE
            /\ procs[p].checks = 1
            /\ procs[p].result <=> procs[p].group \in GroupsOf(procs[p].cb, procs[p].user)
            /\ procs[p].ret = procs[p].result
            /\ written[KeyOf(p)] = [set |-> TRUE, value |-> procs[p].result]
            /\ IF procs[p].timeout > 0
               THEN IF procs[p].age < procs[p].timeout
                    THEN store[KeyOf(p)] =
                            [value |-> IF procs[p].result THEN "True" ELSE "False",
                             ttl |-> procs[p].timeout - procs[p].age]
                    ELSE store[KeyOf(p)] = Missing
               ELSE store[KeyOf(p)] =
                       [value |-> IF procs[p].result THEN "True" ELSE "False",
                        ttl |-> -1]

C10_Witness ==
    /\ procs["p1"].pc = "done"
    /\ procs["p1"].path = "miss"
    /\ procs["p1"].timeout = 2
    /\ procs["p1"].age = 1
    /\ ~procs["p1"].result
    /\ store[KeyOf("p1")] = [value |-> "False", ttl |-> 1]

\* C11: with a timeout > 0, a call for (u,g) that comes after the entry an
\* earlier call stored for (u,g) has expired is a miss: it makes the underlying
\* check once, returns what the callback answers now and stores that answer as
\* a new entry with the timeout the call read
C11_ExpiredEntryIsFreshMiss ==
    \A p \in CacheProcs :
        /\ procs[p].pc = "done"
        /\ procs[p].prior.set
        /\ procs[p].seen1 = NONE
        =>
        /\ procs[p].path = "miss"
        /\ procs[p].checks = 1
        /\ procs[p].ret <=> procs[p].group \in GroupsOf(procs[p].cb, procs[p].user)
        /\ written[KeyOf(p)] = [set |-> TRUE, value |-> procs[p].ret]
        /\ procs[p].age = 0 =>
              store[KeyOf(p)] =
                  [value |-> IF procs[p].ret THEN "True" ELSE "False",
                   ttl |-> IF procs[p].timeout > 0 THEN procs[p].timeout ELSE -1]

C11_Witness ==
    /\ procs["p1"].pc = "done"
    /\ procs["p1"].prior = [set |-> TRUE, value |-> TRUE]
    /\ procs["p1"].seen1 = NONE
    /\ procs["p1"].timeout > 0
    /\ procs["p1"].age = 0
    /\ ~procs["p1"].ret
    /\ store[KeyOf("p1")] = [value |-> "False", ttl |-> procs["p1"].timeout]

\* C12: once a negative timeout was given (to the constructor or in an
\* assignment) the timeout in effect is 0 and no call ends in an
\* AttributeError
C12_NegativeTimeoutFallsBackToNeverExpire ==
    /\ timeout.invalid => timeout.set /\ timeout.value = 0
    /\ \A p \in CacheProcs : procs[p].exc # "AttributeError"

\* C13: a call that redis failed in (get, set or expire) ends in that failure,
\* and the guarded view's wrapper passes it on: no view call, no action, no
\* abort(401); after a failed get the underlying check was not made and the
\* call counts neither as a hit nor as a miss
C13_StoreFailurePropagates ==
    \A p \in CacheProcs :
        procs[p].exc = "StoreFailure" =>
            /\ procs[p].pc = "failed"
            /\ procs[p].at \in {"get1", "get2", "set", "expire"}
            /\ cached_guard_response(procs[p]).kind = "raise"
            /\ cached_guard_response(procs[p]).exc = "StoreFailure"
            /\ cached_guard_response(procs[p]).view_calls = <<>>
            /\ cached_guard_response(procs[p]).action_calls = 0
            /\ procs[p].at \in {"get1", "get2"} =>
                  /\ procs[p].checks = 0
                  /\ procs[p].calls = 0
                  /\ procs[p].path = "none"

C13_Witness ==
    /\ procs["p1"].pc = "failed"
    /\ procs["p1"].exc = "StoreFailure"
    /\ procs["p1"].at = "get1"
    /\ store[KeyOf("p1")] = Missing
    /\ get_groups_for_user = "cb_eng"

\* C14: when the registered callback raises during a request's check, the
\* check raises that exception and the wrapper raises it too: the view is not
\* called, action() is not called and there is no abort(401)
C14_ResolverFailurePropagates ==
    last.op = "wrapper" =>
        /\ (last.cg.calls # <<>> /\ Callbacks[last.cb][last.cg.calls[1]].raises) =>
              /\ last.cg.kind = "raise"
              /\ last.cg.exc = "ResolverFailure"
        /\ (last.cg.kind = "raise" /\ last.cg.exc = "ResolverFailure") =>
              /\ last.resp.kind = "raise"
              /\ last.resp.exc = "ResolverFailure"
              /\ last.resp.view_calls = <<>>
              /\ last.resp.action_calls = 0

C14_Witness ==
    /\ last.op = "wrapper"
    /\ last.guard.form = "chown"
    /\ last.guard.action = "action"
    /\ last.cb = "cb_fail"
    /\ last.cg.calls = <<"carol">>
    /\ last.resp.kind = "raise"
    /\ last.resp.exc = "ResolverFailure"

\* C15: a registration makes its callback the registered one, whatever was
\* registered before; user_in_group returns False without a registered
\* callback, and otherwise calls the registered callback once with the user
\* and returns True exactly when the group is in the list it returned
C15_LatestResolverDecides ==
    /\ last.op = "groups_for_user" => get_groups_for_user = last.cb
    /\ last.op = "user_in_group" =>
          /\ last.cb = get_groups_for_user
          /\ last.cb = UNSET =>
                /\ last.out.kind = "return"
                /\ ~last.out.value
                /\ last.out.calls = <<>>
          /\ last.cb # UNSET => last.out.calls = <<last.user>>
          /\ last.out.kind = "return" =>
                (last.out.value <=> last.group \in GroupsOf(last.cb, last.user))

C15_Witness ==
    /\ last.op = "user_in_group"
    /\ last.cb = "cb_eng"
    /\ last.user = "bob"
    /\ last.group = "eng"
    /\ last.out.value
    /\ Callbacks["cb_eng"]["bob"].groups[1] # "eng"

\* C16: with the callback and the timeout fixed, every concurrent call that
\* returns returns what the callback answers for its pair, and an entry that
\* is in the store while no call is in progress holds that answer
C16_ConcurrentCallsAgree ==
    /\ \A p \in CacheProcs :
          procs[p].pc = "done" =>
             (procs[p].ret <=>
                 procs[p].group \in GroupsOf(get_groups_for_user, procs[p].user))
    /\ (\A p \in CacheProcs : procs[p].pc \in {"idle", "done", "failed"}) =>
          \A u \in CacheUsers, g \in CacheGroups :
             store[gen_json_pair(u, g)] # Missing =>
                store[gen_json_pair(u, g)].value =
                   (IF g \in GroupsOf(get_groups_for_user, u) THEN "True" ELSE "False")

\* C17: a request's check calls the registered callback at most once; not at
\* all when the other bit is set or when the user check granted; and only
\* with the group bit (chmod form) or a non-empty group (owner/group form)
C17_ShortCircuitOrder ==
    last.op = "wrapper" =>
        /\ Len(last.cg.calls) <= 1
        /\ last.cg.kind = "return" /\ last.cg.value /\ last.cg.via \in {"other", "user"} =>
              last.cg.calls = <<>>
        /\ last.guard.form = "chmod" /\ last.guard.chmod % 10 > 0 =>
              last.cg.calls = <<>>
        /\ /\ last.guard.form = "chmod"
           /\ last.guard.chmod \div 100 > 0
           /\ last.guard.user = last.current.value
           => last.cg.calls = <<>>
        /\ /\ last.guard.form = "chown"
           /\ Truthy(last.guard.user)
           /\ last.current.kind = "return"
           /\ last.guard.user = last.current.value
           => last.cg.calls = <<>>
        /\ last.cg.calls # <<>> =>
              IF last.guard.form = "chmod"
              THEN (last.guard.chmod \div 10) % 10 > 0
              ELSE Truthy(last.guard.group)

C17_Witness ==
    /\ last.op = "wrapper"
    /\ last.guard.form = "chmod"
    /\ last.guard.chmod = 110
    /\ last.guard.user = "carol"
    /\ last.current.value = "carol"
    /\ last.cb = "cb_fail"
    /\ last.cg.kind = "return"
    /\ last.cg.via = "user"
    /\ last.cg.calls = <<>>

\* C18: a call that found the entry present returns the boolean that was
\* stored there when it found it; a call that found none returns the result of
\* the underlying check it made
C18_ReturnIsStoredOrResolved ==
    \A p \in CacheProcs :
        procs[p].pc = "done" =>
            /\ procs[p].path = "hit" => (procs[p].ret <=> procs[p].seen1 = "True")
            /\ procs[p].path = "miss" => procs[p].ret = procs[p].result

\* C19: with a timeout > 0 in effect for every call, every entry in the store
\* carries an expiry whenever no call is in progress
C19_EveryEntryExpires ==
    /\ timeout.set
    /\ timeout.value > 0
    /\ \A p \in CacheProcs : procs[p].pc \in {"idle", "done", "failed"}
    =>
    \A k \in Keys : store[k] = Missing \/ store[k].ttl > 0

====
